---- MODULE Spec2Model ----
(***************************************************************************)
(* A model of uniplot's series normalisation (uniplot/multi_series.py) and *)
(* axis-label layout (uniplot/axis_labels/label_set.py).                   *)
(*                                                                         *)
(* Spec          : one MultiSeries object, from its constructor call on.   *)
(* SpecLabelSet  : one LabelSet object, from the state after construction. *)
(***************************************************************************)
EXTENDS Integers, Sequences, FiniteSets, TLC

VARIABLES
    \* ---- MultiSeries ----
    ms_pc,                  \* "new" | "ok" (constructed) | "failed" (__init__ raised)
    ys_arg, xs_arg,         \* the constructor's arguments
    ys, xs,                 \* self.ys, self.xs: lists of numpy arrays
    is_multi_dimensional,   \* self.is_multi_dimensional
    x_is_timeseries,        \* self.x_is_timeseries
    last_op, result,        \* the last call on the object and its outcome
    \* ---- LabelSet ----
    labels, x_min, x_max, available_space,
    results_already_in_cache, rendered_result, render_does_overlap,
    round_half, degenerate_pos,   \* the discretizer's two fixed conventions
    ls_op, ls_result,       \* the last call on the LabelSet and its outcome
    ls_calls,               \* how many calls were made
    ls_computations,        \* how often the layout computation has run
    ls_first,               \* what the first completed computation produced
    ls_trace                \* per label: what the layout loop did with it

ms_vars == <<ms_pc, ys_arg, xs_arg, ys, xs, is_multi_dimensional,
             x_is_timeseries, last_op, result>>
ls_vars == <<labels, x_min, x_max, available_space, results_already_in_cache,
             rendered_result, render_does_overlap, round_half, degenerate_pos,
             ls_op, ls_result, ls_calls, ls_computations, ls_first, ls_trace>>
vars == <<ms_vars, ls_vars>>

(***************************************************************************)
(* Bounds                                                                  *)
(***************************************************************************)
MaxTop == 2        \* elements of a top-level x or y input

SeqsUpTo(S, n) == UNION {[1..k -> S] : k \in 0..n}

RECURSIVE Flatten(_)
Flatten(ss) == IF ss = <<>> THEN <<>> ELSE Head(ss) \o Flatten(Tail(ss))

(***************************************************************************)
(* Python objects handed to the constructor.  Every object is a record     *)
(* [t, v, items]: t its type, v a scalar's value, items a container's      *)
(* elements.                                                               *)
(***************************************************************************)
PyObj(t, v, items) == [t |-> t, v |-> v, items |-> items]
PyNone == PyObj("none", 0, <<>>)
PyInt(n) == PyObj("int", n, <<>>)
PyNaN == PyObj("nan", 0, <<>>)                   \* float("nan")
PyDatetime(ns) == PyObj("datetime", ns, <<>>)    \* datetime / pd.Timestamp, ns since epoch
PyList(items) == PyObj("list", 0, items)
PdSeries(items) == PyObj("series", 0, items)     \* a pandas column
PdDatetimeIndex(items) == PyObj("dtindex", 0, items)

Containers == {"list", "series", "dtindex"}
IsIterable(o) == o.t \in Containers
IsNumber(o) == o.t \in {"int", "nan"}
IsDate(o) == o.t = "datetime"       \* isinstance(x, datetime.date); datetime is a date
AllNumbers(s) == \A i \in 1..Len(s) : IsNumber(s[i])
AllDates(s) == \A i \in 1..Len(s) : IsDate(s[i])          \* all(isinstance(x, datetime.date) ...)
AllIterable(s) == \A i \in 1..Len(s) : IsIterable(s[i])

\* The inputs: top-level lists and columns of up to MaxTop elements, each
\* a scalar or a row of at most one point.  The dates are sub-second
\* instants right after the epoch: the truncating division by 10 ** 9 is
\* visible on them, and their nanosecond counts stay below 2^31.
Scalars == {PyInt(10), PyInt(0), PyNaN}
Dates == {PyDatetime(500000000), PyDatetime(1500000000)}
NumRows == {PyList(<<>>), PyList(<<PyInt(10)>>), PyList(<<PyNaN>>)}
DateRows == {PyList(<<>>), PyList(<<PyDatetime(1500000000)>>),
             PdSeries(<<PyDatetime(1500000000)>>)}
YInputs == {PyList(s) : s \in SeqsUpTo(Scalars \cup NumRows, MaxTop)}
             \cup {PdSeries(s) : s \in SeqsUpTo(Scalars, MaxTop)}
XInputs == {PyNone} \cup YInputs
             \cup {PyList(s) : s \in SeqsUpTo(Dates \cup DateRows, MaxTop)}
             \cup {PdSeries(s) : s \in SeqsUpTo(Dates, MaxTop) \ {<<>>}}
             \cup {PdDatetimeIndex(s) : s \in SeqsUpTo(Dates, MaxTop)}

(***************************************************************************)
(* numpy values and arrays.  A float is NaN or log10 applied lg times to   *)
(* the integer m: exact, and closed under _safe_log10.  An array is its    *)
(* dtype, its shape and its elements in row-major order; exc names the     *)
(* exception when making the array raised.                                 *)
(***************************************************************************)
Num(n) == [nan |-> FALSE, m |-> n, lg |-> 0]
NaN == [nan |-> TRUE, m |-> 0, lg |-> 0]
Arr(dtype, shape, data) == [exc |-> "", dtype |-> dtype, shape |-> shape, data |-> data]
Err(e) == [exc |-> e, dtype |-> "", shape |-> <<>>, data |-> <<>>]
NsPerSecond == 1000000000

ScalarValue(o) == IF o.t = "nan" THEN NaN ELSE Num(o.v)

\* np.array(array) followed by the float cast of lines 153-158.
_cast_as_numpy_floats(array) ==
    CASE IsNumber(array) -> Arr("float64", <<>>, <<ScalarValue(array)>>)
      [] array.t \in {"datetime", "none"} ->
            \* a 0-d object array; float(datetime) is a TypeError
            IF array.t = "none" THEN Arr("float64", <<>>, <<NaN>>) ELSE Err("TypeError")
      [] OTHER ->
            LET it == array.items IN
            IF AllNumbers(it)
            THEN Arr("float64", <<Len(it)>>, [i \in 1..Len(it) |-> ScalarValue(it[i])])
            ELSE IF AllDates(it)
            THEN \* a datetime64[ns] column casts to its nanosecond counts; a
                 \* list of datetime objects is an object array and float() fails
                 IF array.t = "list" THEN Err("TypeError")
                 ELSE Arr("float64", <<Len(it)>>, [i \in 1..Len(it) |-> Num(it[i].v)])
            ELSE IF AllIterable(it)
            THEN LET rows == [i \in 1..Len(it) |-> it[i].items]
                     n == Len(rows[1])
                     leaves == Flatten(rows)
                 IN  IF \E i \in 1..Len(rows) : Len(rows[i]) # n
                     THEN Err("ValueError")       \* inhomogeneous shape
                     ELSE IF AllNumbers(leaves)
                     THEN Arr("float64", <<Len(rows), n>>,
                              [i \in 1..Len(leaves) |-> ScalarValue(leaves[i])])
                     ELSE IF \A i \in 1..Len(it) : it[i].t # "list"
                     THEN Arr("float64", <<Len(rows), n>>,
                              [i \in 1..Len(leaves) |-> Num(leaves[i].v)])
                     ELSE Err("TypeError")
            ELSE IF \E i \in 1..Len(it) : IsIterable(it[i])
            THEN Err("ValueError")                \* scalars beside rows: inhomogeneous shape
            ELSE Err("TypeError")                 \* numbers beside datetimes

\* A variant that calls the input multi-dimensional as soon as one element
\* is iterable.
_is_multi_dimensional_any(series) ==
    IsIterable(series) /\ \E i \in 1..Len(series.items) : IsIterable(series.items[i])

_is_multi_dimensional(series) ==
    IF ~IsIterable(series) THEN FALSE     \* `for x in series` raises TypeError
    ELSE AllIterable(series.items)

_is_timeseries_ish(series) ==
    CASE series.t = "dtindex" -> TRUE
      [] series.t = "series" -> series.items # <<>> /\ AllDates(series.items)
      [] series.t = "list" -> AllDates(series.items)
      [] OTHER -> FALSE

_convert_timeseries_to_numpy(series) ==
    IF IsIterable(series)
    THEN Arr("int64", <<Len(series.items)>>,
             [i \in 1..Len(series.items) |-> Num(series.items[i].v \div NsPerSecond)])
    ELSE Err("AttributeError")            \* a datetime scalar has no astype

\* x <= 0.0 for a non-NaN x = log10^lg(m): every m here is below 10^10.
NonPositive(x) ==
    CASE x.lg = 0 -> x.m <= 0
      [] x.lg = 1 -> x.m <= 1
      [] x.lg = 2 -> x.m <= 10
      [] OTHER -> TRUE

_safe_log10(x) ==
    Arr("float64", x.shape,
        [i \in 1..Len(x.data) |->
            IF x.data[i].nan \/ NonPositive(x.data[i]) THEN NaN
            ELSE [nan |-> FALSE, m |-> x.data[i].m, lg |-> x.data[i].lg + 1]])

\* array[~np.isnan(array)]
NotNaN(array) == SelectSeq(array.data, LAMBDA x : ~x.nan)

\* log10 is monotonic and is applied to a whole axis at once, so the
\* numbers of one axis compare as their m do.
Return(x) == [kind |-> "return", exc |-> "", val |-> x]
Raise(e) == [kind |-> "raise", exc |-> e, val |-> NaN]
NoResult == [kind |-> "none", exc |-> "", val |-> NaN]

MaxOf(s) == CHOOSE x \in {s[i] : i \in 1..Len(s)} : \A j \in 1..Len(s) : s[j].m <= x.m
MinOf(s) == CHOOSE x \in {s[i] : i \in 1..Len(s)} : \A j \in 1..Len(s) : x.m <= s[j].m

_safe_max(array) ==
    IF NotNaN(array) = <<>> THEN Raise("ValueError") ELSE Return(MaxOf(NotNaN(array)))

_safe_min(array) ==
    IF NotNaN(array) = <<>> THEN Raise("ValueError") ELSE Return(MinOf(NotNaN(array)))

\* max([_safe_max(row) for row in rows]) and min([_safe_min(row) ...]): the
\* comprehension raises with the first row that does, and max([]) is a
\* ValueError.
AggregateMax(rows) ==
    LET per == [i \in 1..Len(rows) |-> _safe_max(rows[i])] IN
    IF \E i \in 1..Len(per) : per[i].kind = "raise" THEN Raise("ValueError")
    ELSE IF per = <<>> THEN Raise("ValueError")
    ELSE Return(MaxOf([i \in 1..Len(per) |-> per[i].val]))

AggregateMin(rows) ==
    LET per == [i \in 1..Len(rows) |-> _safe_min(rows[i])] IN
    IF \E i \in 1..Len(per) : per[i].kind = "raise" THEN Raise("ValueError")
    ELSE IF per = <<>> THEN Raise("ValueError")
    ELSE Return(MinOf([i \in 1..Len(per) |-> per[i].val]))

(***************************************************************************)
(* MultiSeries.__init__                                                    *)
(***************************************************************************)
FirstExc(arrs) ==
    LET bad == {i \in 1..Len(arrs) : arrs[i].exc # ""} IN
    IF bad = {} THEN ""
    ELSE arrs[CHOOSE i \in bad : \A j \in bad : i <= j].exc

\* len(ys_row): a 0-d array has no len()
ArangeFor(ys_row) ==
    IF ys_row.shape = <<>> THEN Err("TypeError")
    ELSE Arr("int64", <<ys_row.shape[1]>>, [i \in 1..ys_row.shape[1] |-> Num(i)])

InitYs(y, multi) ==
    IF multi THEN [i \in 1..Len(y.items) |-> _cast_as_numpy_floats(y.items[i])]
    ELSE <<_cast_as_numpy_floats(y)>>

InitXs(x, multi, ts, the_ys) ==
    IF x.t = "none" THEN [i \in 1..Len(the_ys) |-> ArangeFor(the_ys[i])]
    ELSE IF multi
    THEN IF ts THEN [i \in 1..Len(x.items) |-> _convert_timeseries_to_numpy(x.items[i])]
         ELSE [i \in 1..Len(x.items) |-> _cast_as_numpy_floats(x.items[i])]
    ELSE IF ts THEN <<_convert_timeseries_to_numpy(x)>>
         ELSE <<_cast_as_numpy_floats(x)>>

LSIdle ==
    UNCHANGED ls_vars

Construct ==
    /\ ms_pc = "new"
    /\ \E y \in YInputs, x \in XInputs :
        LET multi == _is_multi_dimensional(y)
            new_ys == InitYs(y, multi)
            ts == _is_timeseries_ish(x)
            new_xs == InitXs(x, multi, ts, new_ys)
        IN  /\ ys_arg' = y
            /\ xs_arg' = x
            /\ last_op' = "__init__"
            /\ is_multi_dimensional' = multi
            /\ IF FirstExc(new_ys) # ""
               THEN /\ ms_pc' = "failed"
                    /\ result' = Raise(FirstExc(new_ys))
                    /\ UNCHANGED <<ys, xs, x_is_timeseries>>
               ELSE /\ ys' = new_ys
                    /\ x_is_timeseries' = ts
                    /\ IF FirstExc(new_xs) # ""
                       THEN /\ ms_pc' = "failed"
                            /\ result' = Raise(FirstExc(new_xs))
                            /\ UNCHANGED xs
                       ELSE /\ ms_pc' = "ok"
                            /\ result' = NoResult
                            /\ xs' = new_xs
    /\ LSIdle

\* A variant without the time-series check of lines 62-63.
set_x_axis_to_log10_unchecked ==
    /\ ms_pc = "ok"
    /\ last_op' = "set_x_axis_to_log10"
    /\ result' = NoResult
    /\ xs' = [i \in 1..Len(xs) |-> _safe_log10(xs[i])]
    /\ UNCHANGED <<ms_pc, ys_arg, xs_arg, ys, is_multi_dimensional, x_is_timeseries>>
    /\ LSIdle

set_x_axis_to_log10 ==
    /\ ms_pc = "ok"
    /\ last_op' = "set_x_axis_to_log10"
    /\ IF x_is_timeseries
       THEN /\ result' = Raise("ValueError")
            /\ UNCHANGED xs
       ELSE /\ result' = NoResult
            /\ xs' = [i \in 1..Len(xs) |-> _safe_log10(xs[i])]
    /\ UNCHANGED <<ms_pc, ys_arg, xs_arg, ys, is_multi_dimensional, x_is_timeseries>>
    /\ LSIdle

set_y_axis_to_log10 ==
    /\ ms_pc = "ok"
    /\ last_op' = "set_y_axis_to_log10"
    /\ result' = NoResult
    /\ ys' = [i \in 1..Len(ys) |-> _safe_log10(ys[i])]
    /\ UNCHANGED <<ms_pc, ys_arg, xs_arg, xs, is_multi_dimensional, x_is_timeseries>>
    /\ LSIdle

Query(name, outcome) ==
    /\ ms_pc = "ok"
    /\ last_op' = name
    /\ result' = outcome
    /\ UNCHANGED <<ms_pc, ys_arg, xs_arg, ys, xs, is_multi_dimensional, x_is_timeseries>>
    /\ LSIdle

ms_y_max == Query("y_max", AggregateMax(ys))
ms_y_min == Query("y_min", AggregateMin(ys))
ms_x_max == Query("x_max", AggregateMax(xs))
ms_x_min == Query("x_min", AggregateMin(xs))

InitMS ==
    /\ ms_pc = "new"
    /\ ys_arg = PyNone
    /\ xs_arg = PyNone
    /\ ys = <<>>
    /\ xs = <<>>
    /\ is_multi_dimensional = FALSE
    /\ x_is_timeseries = FALSE
    /\ last_op = "none"
    /\ result = NoResult

InitLSIdle ==
    /\ labels = <<>>
    /\ x_min = 0
    /\ x_max = 0
    /\ available_space = 0
    /\ results_already_in_cache = FALSE
    /\ rendered_result = <<>>
    /\ render_does_overlap = FALSE
    /\ round_half = "even"
    /\ degenerate_pos = 0
    /\ ls_op = "none"
    /\ ls_calls = 0
    /\ ls_result = [kind |-> "none", exc |-> "", lines |-> <<>>, flag |-> FALSE]
    /\ ls_computations = 0
    /\ ls_first = [kind |-> "none", exc |-> "", lines |-> <<>>, flag |-> FALSE]
    /\ ls_trace = <<>>

Init == InitMS /\ InitLSIdle


Next ==
    \/ Construct
    \/ set_x_axis_to_log10
    \/ set_y_axis_to_log10
    \/ ms_y_max
    \/ ms_y_min
    \/ ms_x_max
    \/ ms_x_min

Spec == Init /\ [][Next]_vars

(***************************************************************************)
(* LabelSet.  A label is None, NaN or a number held in hundredths (c);     *)
(* every number is a multiple of 0.25, so it is exact in binary and the    *)
(* formatter's rounding ties are exact ties, rounded half to even.  A      *)
(* string is the sequence of its characters.                               *)
(***************************************************************************)
MaxLabels == 3     \* labels of one LabelSet
MaxCalls == 3      \* calls made on one LabelSet

LEFT_MARGIN_FOR_HORIZONTAL_AXIS == 1
NrDigitsTried == 10         \* range(10)

LabelNone == [k |-> "none", c |-> 0]
LabelNaN == [k |-> "nan", c |-> 0]
LabelNum(c) == [k |-> "num", c |-> c]
LabelVals == {LabelNone, LabelNaN, LabelNum(0), LabelNum(50),
              LabelNum(-150), LabelNum(125000)}
Domains == {<<0, 0>>, <<0, 62500>>, <<-200, 125000>>}     \* <<x_min, x_max>>, in hundredths
Spaces == {0, 2, 5}                                        \* available_space

Abs(n) == IF n < 0 THEN -n ELSE n

RECURSIVE Pow10(_)
Pow10(k) == IF k = 0 THEN 1 ELSE 10 * Pow10(k - 1)

DigitChar(d) == <<"0", "1", "2", "3", "4", "5", "6", "7", "8", "9">>[d + 1]

RECURSIVE NatStr(_)
NatStr(n) == IF n < 10 THEN <<DigitChar(n)>> ELSE NatStr(n \div 10) \o <<DigitChar(n % 10)>>

\* The "," option: a comma before every group of three integer digits.
RECURSIVE Grouped(_)
Grouped(ds) ==
    IF Len(ds) <= 3 THEN ds
    ELSE Grouped(SubSeq(ds, 1, Len(ds) - 3)) \o <<",">> \o SubSeq(ds, Len(ds) - 2, Len(ds))

RECURSIVE StripZeros(_)
StripZeros(ds) ==
    IF Len(ds) > 1 /\ ds[Len(ds)] = "0" THEN StripZeros(SubSeq(ds, 1, Len(ds) - 1)) ELSE ds

Zeros(n) == [i \in 1..n |-> "0"]
SignOf(c) == IF c < 0 THEN <<"-">> ELSE <<>>

\* "{:,d}".format(int(n)): int() truncates towards zero.
FormatD(c) ==
    LET q == Abs(c) \div 100 IN
    (IF q = 0 THEN <<>> ELSE SignOf(c)) \o Grouped(NatStr(q))

\* "{:,.<p>g}".format(float(n)), p >= 1: round to p significant digits (half
\* to even), drop trailing zeros, exponent form when the decimal exponent is
\* below -4 or at least p.
FormatG(c, p) ==
    IF c = 0 THEN <<"0">>
    ELSE
    LET a == Abs(c)
        D == Len(NatStr(a))
        r == D - p
        q0 == IF r > 0 THEN a \div Pow10(r) ELSE a
        rem == IF r > 0 THEN a % Pow10(r) ELSE 0
        up == r > 0 /\ (2 * rem > Pow10(r) \/ (2 * rem = Pow10(r) /\ q0 % 2 = 1))
        q1 == IF up THEN q0 + 1 ELSE q0
        carry == r > 0 /\ q1 = Pow10(p)
        q == IF carry THEN Pow10(p - 1) ELSE q1
        e == (D - 3) + (IF carry THEN 1 ELSE 0)
        sig == StripZeros(NatStr(q))
        L == Len(sig)
        ex == NatStr(Abs(e))
    IN  IF e < -4 \/ e >= p
        THEN SignOf(c) \o <<sig[1]>>
               \o (IF L > 1 THEN <<".">> \o SubSeq(sig, 2, L) ELSE <<>>)
               \o <<"e", IF e < 0 THEN "-" ELSE "+">>
               \o (IF Len(ex) < 2 THEN <<"0">> \o ex ELSE ex)
        ELSE IF e >= 0
        THEN SignOf(c)
               \o Grouped(IF L >= e + 1 THEN SubSeq(sig, 1, e + 1) ELSE sig \o Zeros(e + 1 - L))
               \o (IF L > e + 1 THEN <<".">> \o SubSeq(sig, e + 2, L) ELSE <<>>)
        ELSE SignOf(c) \o <<"0", ".">> \o Zeros(-e - 1) \o sig

\* str(n) of a float: the shortest repr, always with a fractional part.
NaiveStr(c) ==
    LET a == Abs(c)
        f == a % 100
    IN  SignOf(c) \o NatStr(a \div 100) \o <<".">>
          \o (IF f % 10 = 0 THEN <<DigitChar(f \div 10)>>
              ELSE <<DigitChar(f \div 10), DigitChar(f % 10)>>)

Str(s) == [exc |-> "", s |-> s]
StrErr(e) == [exc |-> e, s |-> <<>>]

\* int(nan) raises ValueError; "{:,.<p>g}" of nan is "nan".
_float_format(n, nr_digits) ==
    IF nr_digits = 0
    THEN IF n.k = "nan" THEN StrErr("ValueError") ELSE Str(FormatD(n.c))
    ELSE IF n.k = "nan" THEN Str(<<"n", "a", "n">>) ELSE Str(FormatG(n.c, nr_digits))

NotNoneOf(numbers) == SelectSeq(numbers, LAMBDA n : n.k # "none")

TestList(numbers, nr_digits) ==
    [i \in 1..Len(NotNoneOf(numbers)) |-> _float_format(NotNoneOf(numbers)[i], nr_digits)]

\* The result is [exc, strs]: the exception raised, or the labels' strings.
RECURSIVE FindFrom(_, _)
FindFrom(numbers, nr_digits) ==
    IF nr_digits >= NrDigitsTried
    THEN [exc |-> "",
          strs |-> [i \in 1..Len(numbers) |->
                      IF numbers[i].k = "none" THEN <<>>
                      ELSE IF numbers[i].k = "nan" THEN <<"n", "a", "n">>
                      ELSE NaiveStr(numbers[i].c)]]
    ELSE LET test_list == TestList(numbers, nr_digits) IN
         IF \E i \in 1..Len(test_list) : test_list[i].exc # ""
         THEN [exc |-> (CHOOSE e \in {test_list[i].exc : i \in 1..Len(test_list)} : e # ""),
               strs |-> <<>>]
         ELSE IF Cardinality({test_list[i] : i \in 1..Len(test_list)}) = Len(test_list)
         THEN [exc |-> "",
               strs |-> [i \in 1..Len(numbers) |->
                           IF numbers[i].k = "none" THEN <<>>
                           ELSE _float_format(numbers[i], nr_digits).s]]
         ELSE FindFrom(numbers, nr_digits + 1)

_find_shortest_string_representation(numbers) == FindFrom(numbers, 0)

\* uniplot.discretizer.discretize, by the formula of the design:
\* round((value - x_min) / (x_max - x_min) * steps), with one fixed rounding
\* of ties and one fixed position for a degenerate domain.  Arithmetic on
\* None is a TypeError.
discretize(x, lo, hi, steps) ==
    IF x.k # "num" THEN [exc |-> "TypeError", pos |-> 0]
    ELSE IF hi = lo
    THEN [exc |-> "", pos |-> IF degenerate_pos = "zero" THEN 0 ELSE steps \div 2]
    ELSE LET N == (x.c - lo) * steps
             Dn == hi - lo
             q == N \div Dn
             r == N % Dn
         IN  [exc |-> "",
              pos |-> IF 2 * r < Dn THEN q
                      ELSE IF 2 * r > Dn THEN q + 1
                      ELSE IF round_half = "even" /\ q % 2 = 0 THEN q
                      ELSE q + 1]

Max2(a, b) == IF a >= b THEN a ELSE b

\* A variant whose labels may touch: every label is treated as the first
\* one is, its buffer clamped at 0.
RenderStep_touching(st, i, str_labels) ==
    LET str_label == str_labels[i]
        d == discretize(labels[i], x_min, x_max, available_space)
        offset == Max2(0, d.pos - (Len(str_label) \div 2) + LEFT_MARGIN_FOR_HORIZONTAL_AXIS)
        buffer0 == offset - Len(st.line)
        clamp == buffer0 < 0
        buffer == IF buffer0 < 0 THEN 0 ELSE buffer0
    IN  IF d.exc # "" THEN [st EXCEPT !.exc = d.exc]
        ELSE [exc |-> "",
              line |-> st.line \o [j \in 1..buffer |-> " "] \o str_label,
              overlap |-> st.overlap \/ clamp,
              trace |-> Append(st.trace,
                               [pos |-> d.pos, str |-> str_label, offset |-> offset,
                                before |-> Len(st.line), buffer |-> buffer])]

\* A variant that treats the first label as the later ones: a buffer below
\* 1 is clamped to 1 and flagged.
RenderStep_first_as_rest(st, i, str_labels) ==
    LET str_label == str_labels[i]
        d == discretize(labels[i], x_min, x_max, available_space)
        offset == Max2(0, d.pos - (Len(str_label) \div 2) + LEFT_MARGIN_FOR_HORIZONTAL_AXIS)
        buffer0 == offset - Len(st.line)
        clamp == buffer0 < 1
        buffer == IF buffer0 < 1 THEN 1 ELSE buffer0
    IN  IF d.exc # "" THEN [st EXCEPT !.exc = d.exc]
        ELSE [exc |-> "",
              line |-> st.line \o [j \in 1..buffer |-> " "] \o str_label,
              overlap |-> st.overlap \/ clamp,
              trace |-> Append(st.trace,
                               [pos |-> d.pos, str |-> str_label, offset |-> offset,
                                before |-> Len(st.line), buffer |-> buffer])]

\* One pass of the loop body of lines 50-73 for label i, on the loop state
\* st = [exc, line, overlap, trace].
RenderStep(st, i, str_labels) ==
    LET str_label == str_labels[i]
        d == discretize(labels[i], x_min, x_max, available_space)
        offset == Max2(0, d.pos - (Len(str_label) \div 2) + LEFT_MARGIN_FOR_HORIZONTAL_AXIS)
        buffer0 == offset - Len(st.line)
        clamp == (i = 1 /\ buffer0 < 0) \/ (i > 1 /\ buffer0 < 1)
        buffer == IF i = 1 /\ buffer0 < 0 THEN 0
                  ELSE IF i > 1 /\ buffer0 < 1 THEN 1
                  ELSE buffer0
    IN  IF d.exc # "" THEN [st EXCEPT !.exc = d.exc]
        ELSE [exc |-> "",
              line |-> st.line \o [j \in 1..buffer |-> " "] \o str_label,
              overlap |-> st.overlap \/ clamp,
              trace |-> Append(st.trace,
                               [pos |-> d.pos, str |-> str_label, offset |-> offset,
                                before |-> Len(st.line), buffer |-> buffer])]

RECURSIVE RenderLoop(_, _, _)
RenderLoop(st, i, str_labels) ==
    IF i > Len(labels) \/ st.exc # "" THEN st
    ELSE RenderLoop(RenderStep(st, i, str_labels), i + 1, str_labels)

\* The computation of _render_and_measure_to_cache past its cache check.
Layout ==
    LET found == _find_shortest_string_representation(labels)
        st0 == [exc |-> found.exc, line |-> <<>>, overlap |-> render_does_overlap,
                trace |-> <<>>]
    IN  IF found.exc # "" THEN st0 ELSE RenderLoop(st0, 1, found.strs)

LsReturn(lines, flag) == [kind |-> "return", exc |-> "", lines |-> lines, flag |-> flag]
LsRaise(e) == [kind |-> "raise", exc |-> e, lines |-> <<>>, flag |-> FALSE]
LsNoResult == [kind |-> "none", exc |-> "", lines |-> <<>>, flag |-> FALSE]

MSIdle == UNCHANGED ms_vars

\* A public call: _render_and_measure_to_cache, then the return of the
\* cached field (wants_lines: render, else compute_if_render_does_overlap).
_render_and_measure_to_cache(op, wants_lines) ==
    /\ ls_calls < MaxCalls
    /\ ls_op' = op
    /\ ls_calls' = ls_calls + 1
    /\ IF results_already_in_cache
       THEN /\ ls_result' = IF wants_lines THEN LsReturn(rendered_result, FALSE)
                            ELSE LsReturn(<<>>, render_does_overlap)
            /\ UNCHANGED <<results_already_in_cache, rendered_result, render_does_overlap,
                           ls_computations, ls_first, ls_trace>>
       ELSE \E st \in {Layout} :
            /\ ls_computations' = ls_computations + 1
            /\ render_does_overlap' = st.overlap
            /\ ls_trace' = st.trace
            /\ IF st.exc # ""
               THEN /\ ls_result' = LsRaise(st.exc)
                    /\ UNCHANGED <<results_already_in_cache, rendered_result, ls_first>>
               ELSE /\ rendered_result' = <<st.line>>
                    /\ results_already_in_cache' = TRUE
                    /\ ls_first' = LsReturn(<<st.line>>, st.overlap)
                    /\ ls_result' = IF wants_lines THEN LsReturn(<<st.line>>, FALSE)
                                    ELSE LsReturn(<<>>, st.overlap)
    /\ UNCHANGED <<labels, x_min, x_max, available_space, round_half, degenerate_pos>>
    /\ MSIdle

render == _render_and_measure_to_cache("render", TRUE)

compute_if_render_does_overlap ==
    _render_and_measure_to_cache("compute_if_render_does_overlap", FALSE)

InitLS ==
    /\ labels \in SeqsUpTo(LabelVals, MaxLabels)
    /\ \E dom \in Domains : x_min = dom[1] /\ x_max = dom[2]
    /\ available_space \in Spaces
    /\ round_half \in {"even", "up"}
    /\ degenerate_pos \in {"zero", "mid"}
    /\ results_already_in_cache = FALSE
    /\ rendered_result = <<>>
    /\ render_does_overlap = FALSE
    /\ ls_op = "none"
    /\ ls_calls = 0
    /\ ls_result = LsNoResult
    /\ ls_computations = 0
    /\ ls_first = LsNoResult
    /\ ls_trace = <<>>

InitLabelSet == InitMS /\ InitLS

NextLabelSet ==
    \/ render
    \/ compute_if_render_does_overlap

SpecLabelSet == InitLabelSet /\ [][NextLabelSet]_vars

(***************************************************************************)
(* Properties of MultiSeries, checked under Spec                           *)
(***************************************************************************)
Flags == <<is_multi_dimensional, x_is_timeseries>>
AllData(rows) == Flatten([i \in 1..Len(rows) |-> rows[i].data])
HasNumber(rows) == \E i \in 1..Len(AllData(rows)) : ~AllData(rows)[i].nan

\* C1: set_x_axis_to_log10() on a MultiSeries whose x_is_timeseries flag is
\* true raises ValueError and leaves every x series, every y series and both
\* flags as they were, also after calls of set_y_axis_to_log10().
C1_TimeseriesXLogRejected ==
    [][(x_is_timeseries /\ last_op' = "set_x_axis_to_log10")
         => (/\ result' = Raise("ValueError")
             /\ xs' = xs
             /\ ys' = ys
             /\ Flags' = Flags)]_vars

C1_Witness ==
    /\ ms_pc = "ok"
    /\ x_is_timeseries
    /\ last_op = "set_x_axis_to_log10"
    /\ result = Raise("ValueError")
    /\ xs # <<>> /\ xs[1].data # <<>>
    /\ \E i \in 1..Len(AllData(ys)) : AllData(ys)[i].lg >= 1

\* A row that is date-like: a datetime column or a list of dates.
DateLikeRow(row) == row.items # <<>> /\ _is_timeseries_ish(row)

\* C2: with multi-dimensional ys and an xs that is a list of date-like
\* rows, x_is_timeseries is true and every stored x row holds the rows'
\* seconds since the epoch, as for a single date-like x series.
C2_NestedDatesConverted ==
    (/\ ms_pc = "ok"
     /\ is_multi_dimensional
     /\ xs_arg.t = "list" /\ xs_arg.items # <<>>
     /\ Len(xs_arg.items) = Len(ys_arg.items)
     /\ \A i \in 1..Len(xs_arg.items) : DateLikeRow(xs_arg.items[i]))
    => (/\ x_is_timeseries
        /\ xs = [i \in 1..Len(xs_arg.items) |->
                   _convert_timeseries_to_numpy(xs_arg.items[i])])

\* C3: a constructed MultiSeries holds as many x series as y series.
C3_SameSeriesCount == ms_pc = "ok" => Len(xs) = Len(ys)

\* C4: every stored x series and y series is a floating-point series.
C4_AllSeriesFloat ==
    ms_pc = "ok" => /\ \A i \in 1..Len(xs) : xs[i].dtype = "float64"
                    /\ \A i \in 1..Len(ys) : ys[i].dtype = "float64"

\* C5: when some stored value of the axis is not NaN, x_min/x_max/y_min/y_max
\* return the minimum/maximum over all non-NaN entries of all rows, also
\* when a row holds only NaN or is empty.
NumbersOf(rows) == SelectSeq(AllData(rows), LAMBDA v : ~v.nan)

C5_GlobalExtremes ==
    /\ (last_op = "y_max" /\ HasNumber(ys)) => result = Return(MaxOf(NumbersOf(ys)))
    /\ (last_op = "y_min" /\ HasNumber(ys)) => result = Return(MinOf(NumbersOf(ys)))
    /\ (last_op = "x_max" /\ HasNumber(xs)) => result = Return(MaxOf(NumbersOf(xs)))
    /\ (last_op = "x_min" /\ HasNumber(xs)) => result = Return(MinOf(NumbersOf(xs)))

AllElementsIterable(y) == AllIterable(y.items)
FlatScalars(y) == y.items # <<>> /\ AllNumbers(y.items)
MixedElements(y) ==
    /\ \E i \in 1..Len(y.items) : IsIterable(y.items[i])
    /\ \E i \in 1..Len(y.items) : ~IsIterable(y.items[i])

\* C9 as stated: is_multi_dimensional is true exactly when every element of
\* the y input is iterable, and a flat or a mixed input is stored as exactly
\* one y series.
C9_MixedStoredAsOneSeries ==
    ms_pc # "new" =>
        /\ is_multi_dimensional = AllElementsIterable(ys_arg)
        /\ (FlatScalars(ys_arg) \/ MixedElements(ys_arg))
             => (~is_multi_dimensional /\ Len(ys) = 1)

\* C9, amended: is_multi_dimensional is true exactly when every element of
\* the y input is iterable; a flat sequence of scalars is not
\* multi-dimensional and is stored as exactly one y series; an input mixing
\* rows and scalars is not multi-dimensional either, and its conversion to
\* one float array raises ValueError, so that no y series is stored.
C9_AllOrNothing ==
    ms_pc # "new" =>
        /\ is_multi_dimensional = AllElementsIterable(ys_arg)
        /\ FlatScalars(ys_arg) => (~is_multi_dimensional /\ Len(ys) = 1)
        /\ MixedElements(ys_arg)
             => (/\ ~is_multi_dimensional
                 /\ ms_pc = "failed"
                 /\ result = Raise("ValueError")
                 /\ ys = <<>>)

C9_Witness ==
    /\ ms_pc = "failed"
    /\ MixedElements(ys_arg)
    /\ ~is_multi_dimensional

(***************************************************************************)
(* Properties of LabelSet, checked under SpecLabelSet                      *)
(***************************************************************************)
AllMissing == \A i \in 1..Len(labels) : labels[i].k # "num"

\* C6: no LabelSet operation raises, and for an empty label list and for a
\* label list whose entries are all missing, render() returns the one empty
\* line and compute_if_render_does_overlap() returns false.
C6_DegenerateInputs ==
    ls_calls > 0 =>
        /\ ls_result.kind = "return"
        /\ (AllMissing /\ ls_op = "render") => ls_result.lines = << <<>> >>
        /\ (AllMissing /\ ls_op = "compute_if_render_does_overlap") => ~ls_result.flag

\* C7: over any calls of render() and compute_if_render_does_overlap() the
\* layout computation runs exactly once, on the first call, and every later
\* call returns what that computation produced.
C7_ComputedOnce ==
    ls_calls > 0 =>
        /\ ls_computations = 1
        /\ (ls_result.kind = "return" /\ ls_op = "render")
             => ls_result.lines = ls_first.lines
        /\ (ls_result.kind = "return" /\ ls_op = "compute_if_render_does_overlap")
             => ls_result.flag = ls_first.flag

\* Where label i starts in the line (the column before it, counted from 1),
\* and the intended start column of the claim.
ColumnBefore(i) == ls_trace[i].before + ls_trace[i].buffer
IntendedStart(i) ==
    Max2(0, ls_trace[i].pos - (Len(ls_trace[i].str) \div 2) + LEFT_MARGIN_FOR_HORIZONTAL_AXIS)

\* C8: in the rendered line every label after the first is preceded by at
\* least one space; a label i > 0 whose intended start column is smaller
\* than the line length plus 1 sets the overlap flag; two labels whose
\* discretized positions are closer than their combined half-widths overlap.
C8_SeparatedAndFlagged ==
    results_already_in_cache =>
        LET line == rendered_result[1] IN
        /\ Len(ls_trace) = Len(labels)
        /\ \A i \in 1..Len(ls_trace) :
             /\ ls_trace[i].before =
                  (IF i = 1 THEN 0 ELSE ColumnBefore(i - 1) + Len(ls_trace[i - 1].str))
             /\ SubSeq(line, ColumnBefore(i) + 1, ColumnBefore(i) + Len(ls_trace[i].str))
                  = ls_trace[i].str
        /\ Len(line) = (IF ls_trace = <<>> THEN 0
                        ELSE ColumnBefore(Len(ls_trace)) + Len(ls_trace[Len(ls_trace)].str))
        /\ \A i \in 2..Len(ls_trace) :
             /\ ColumnBefore(i) > ls_trace[i].before
             /\ line[ColumnBefore(i)] = " "
             /\ IntendedStart(i) < ls_trace[i].before + 1 => render_does_overlap
        /\ (/\ Len(ls_trace) = 2
            /\ 2 * Abs(ls_trace[2].pos - ls_trace[1].pos)
                 < Len(ls_trace[1].str) + Len(ls_trace[2].str))
             => render_does_overlap

C8_Witness ==
    /\ results_already_in_cache
    /\ Len(ls_trace) = 3
    /\ \A i \in 1..3 : ls_trace[i].str # <<>>
    /\ IntendedStart(2) < ls_trace[2].before + 1
    /\ IntendedStart(3) > ls_trace[3].before + 1
    /\ 2 * Abs(ls_trace[2].pos - ls_trace[1].pos) < Len(ls_trace[1].str) + Len(ls_trace[2].str)
    /\ render_does_overlap

\* C10: the first label never sets the overlap flag: its buffer is never
\* negative; a LabelSet with zero or one label reports overlap = false; and
\* overlap = true implies that a label with index i > 0 was pushed right of
\* its intended start column.
C10_FirstLabelNeverOverlaps ==
    /\ ls_trace # <<>> => (ls_trace[1].buffer >= 0 /\ ls_trace[1].buffer = IntendedStart(1))
    /\ Len(labels) <= 1 => (~render_does_overlap /\ ~ls_result.flag)
    /\ render_does_overlap
         => \E i \in 2..Len(ls_trace) : ColumnBefore(i) > IntendedStart(i)

C10_Witness ==
    /\ Len(labels) = 1
    /\ ls_op = "compute_if_render_does_overlap"
    /\ ls_result = LsReturn(<<>>, FALSE)
    /\ Len(ls_trace[1].str) >= 2
    /\ ls_trace[1].pos - (Len(ls_trace[1].str) \div 2) + LEFT_MARGIN_FOR_HORIZONTAL_AXIS < 0
    /\ ls_trace[1].buffer = 0

====
